---- MODULE Spec2Model ----
(***************************************************************************)
(* Model of src/app.py: the hiring.cafe proxy.  The state is the module's  *)
(* globals (cache, last_request_time, request_count, request_timestamps),  *)
(* a clock, and the position and locals of each request being served.      *)
(* Time is counted in whole seconds.                                       *)
(***************************************************************************)
EXTENDS Integers, Sequences, FiniteSets, TLC

(***************************************************************************)
(* Program constants, with the values the source gives them.               *)
(***************************************************************************)
MIN_REQUEST_INTERVAL == 5

max_retries == 3

BackoffBase == 10

SearchTimeoutSleep == 3

DetailRetrySleep == 2

SearchConnectTimeout == 10

DetailTimeout == 15

SizeCap == 100

DefaultSize == 40

(***************************************************************************)
(* Scaled quantities.  The source sets MAX_REQUESTS_PER_HOUR = 50          *)
(* (src/app.py:23), a cache capacity of 100 (src/app.py:427) and an hour   *)
(* of 3600 s for both timedelta(hours=1) (src/app.py:17, 43).  The model   *)
(* is checked at the small values below; every formula is stated in terms  *)
(* of the names, never of the values.  HOUR stays large enough for the     *)
(* quota to bind: MAX_REQUESTS_PER_HOUR calls, spaced by the largest       *)
(* required delay, fit into one HOUR.                                      *)
(***************************************************************************)
MAX_REQUESTS_PER_HOUR == 2

CACHE_MAX == 2

HOUR == 35

\* timedelta(hours=1), src/app.py:17
CACHE_DURATION == HOUR

\* The clock at process start (time.time() is far from 0, so the first call
\* never waits on last_request_time = 0).
StartTime == 8

\* No idle period ends after this time: one idle hour and some calls fit.
\* Calls under way run to their end.
MaxTime == 2 * HOUR

\* No more than this many calls pass the throttle in one run: enough to use
\* up the hourly quota and be granted one more call later.
MaxCalls == MAX_REQUESTS_PER_HOUR + 1

(***************************************************************************)
(* Inputs.                                                                 *)
(***************************************************************************)
\* Python's None for an optional text, and a present text.
None == << >>

Some(s) == << s >>

\* The idle periods between two requests: none, or one of these.
IdleSteps == { HOUR }

\* random.uniform(0.5, 2.0), src/app.py:67, at the whole seconds in range.
Jitter == {1, 2}

\* Lexicographic rank of the workplace-type texts, as sorted() orders them.
WorkplaceRank(w) ==
    CASE w = "Hybrid" -> 1
      [] w = "On-site" -> 2
      [] w = "Remote" -> 3

DefaultWorkplaceTypes == << "Remote", "Hybrid", "On-site" >>

\* The request bodies of /search-jobs the model draws from.
SearchBodies ==
    { [job_title |-> Some("dev"), workplace_types |-> DefaultWorkplaceTypes,
       location_filter |-> None, page |-> 0, size |-> DefaultSize],
      [job_title |-> Some("dev"), workplace_types |-> << "Hybrid", "Remote", "On-site" >>,
       location_filter |-> Some("None"), page |-> 0, size |-> DefaultSize],
      [job_title |-> Some("job"), workplace_types |-> << >>,
       location_filter |-> Some("x"), page |-> 0, size |-> 0],
      [job_title |-> None, workplace_types |-> << >>,
       location_filter |-> None, page |-> 0, size |-> DefaultSize] }

\* The job ids of /job/<job_id> the model draws from.
JobIds == { "42", ":x:0:0" }

(***************************************************************************)
(* Pure functions.                                                         *)
(***************************************************************************)
\* str() of an optional text inside an f-string: None renders as "None".
Str(opt) == IF opt = None THEN "None" ELSE opt[1]

\* ','.join(seq)
RECURSIVE Join(_)
Join(seq) ==
    IF seq = << >> THEN ""
    ELSE IF Len(seq) = 1 THEN seq[1]
    ELSE seq[1] \o "," \o Join(Tail(seq))

\* sorted(workplace_types)
sorted(workplace_types) ==
    SortSeq(workplace_types, LAMBDA a, b : WorkplaceRank(a) < WorkplaceRank(b))

Min(a, b) == IF a < b THEN a ELSE b

Max(a, b) == IF a > b THEN a ELSE b

\* size = min(data.get('size', 40), 100)
CapSize(size) == Min(size, SizeCap)

get_cache_key(job_title, workplace_types, location_filter, page, size) ==
    LET workplace_str == Join(sorted(workplace_types))
    IN  job_title \o ":" \o workplace_str \o ":" \o Str(location_filter)
            \o ":" \o ToString(page) \o ":" \o ToString(size)

\* cache_key = f"job:{job_id}"
job_cache_key(job_id) == "job:" \o job_id

SearchKey(body) ==
    get_cache_key(Str(body.job_title), body.workplace_types, body.location_filter,
                  body.page, CapSize(body.size))

ValidBodies == { b \in SearchBodies : b.job_title # None }

AllKeys == { SearchKey(b) : b \in ValidBodies } \cup { job_cache_key(j) : j \in JobIds }

(***************************************************************************)
(* State.                                                                  *)
(***************************************************************************)
Threads == { "t1", "t2" }

\* The requests of Spec are served one after the other, by one thread.
SerialThreads == { "t1" }

VARIABLES
    now,                 \* the clock: time.time() and datetime.now()
    cache,               \* cache: key -> [timestamp, data]
    last_request_time,
    request_count,
    request_timestamps,
    pc,                  \* where each thread is in its handler
    req,                 \* the locals of the request each thread serves
    attempts,            \* history: start times of the upstream attempts
    last_put,            \* history: key -> time of the latest store, -1 if none
    evicted,             \* history: keys evicted for capacity since their latest store
    upstream_failed,     \* history: a call has met an unsuccessful upstream attempt
    denied               \* history: a call has been denied by the quota check

throttle == << last_request_time, request_count, request_timestamps >>

vars == << now, cache, last_request_time, request_count, request_timestamps,
           pc, req, attempts, last_put, evicted, upstream_failed, denied >>

NoBody == [job_title |-> None, workplace_types |-> << >>, location_filter |-> None,
           page |-> 0, size |-> 0]

\* What a cache entry holds: a search page (response_data) is identified by the
\* request it was computed for, a job detail (formatted_job) by its job id.
NoData == [kind |-> "none", body |-> NoBody, job_id |-> ""]

SearchData(body) ==
    [kind |-> "search", body |-> [body EXCEPT !.size = CapSize(body.size)], job_id |-> ""]

JobData(job_id) == [kind |-> "job", body |-> NoBody, job_id |-> job_id]

NoReq ==
    [kind |-> "none", body |-> NoBody, job_id |-> "", key |-> "",
     attempt |-> 0, wake |-> 0, passes |-> 0, checks |-> 0,
     outcomes |-> << >>, sleeps |-> << >>,
     result |-> "none", error |-> "none", status |-> 0, cached |-> FALSE,
     served |-> NoData, recent_requests |-> 0, oldest_key |-> ""]

EmptyCache == [k \in {} |-> [timestamp |-> 0, data |-> NoData]]

Init ==
    /\ now = StartTime
    /\ cache = EmptyCache
    /\ last_request_time = 0
    /\ request_count = 0
    /\ request_timestamps = << >>
    /\ pc = [t \in Threads |-> "idle"]
    /\ req = [t \in Threads |-> NoReq]
    /\ attempts = << >>
    /\ last_put = [k \in AllKeys |-> -1]
    /\ evicted = {}
    /\ upstream_failed = FALSE
    /\ denied = FALSE

\* cache[key] = entry
CachePut(c, key, entry) ==
    [k \in (DOMAIN c) \cup {key} |-> IF k = key THEN entry ELSE c[k]]

\* del cache[key]
CacheDel(c, key) == [k \in (DOMAIN c) \ {key} |-> c[k]]

\* A stale entry is still served: <= where the code has <.
FreshInclusive(entry, t) == t - entry.timestamp <= CACHE_DURATION

\* datetime.now() - cache_entry['timestamp'] < CACHE_DURATION
Fresh(entry, t) == t - entry.timestamp < CACHE_DURATION

\* The lookup of both handlers serves the entry: the key is present and fresh.
CacheHit(c, key, t) == key \in DOMAIN c /\ Fresh(c[key], t)

(***************************************************************************)
(* The handlers, through the cache lookup.                                  *)
(***************************************************************************)
Respond(t, status, cached, served) ==
    /\ pc' = [pc EXCEPT ![t] = "done"]
    /\ req' = [req EXCEPT ![t].status = status, ![t].cached = cached,
                          ![t].served = served]

\* The locals of a fresh request.
NewReq(kind, body, job_id, key) ==
    [NoReq EXCEPT !.kind = kind, !.body = body, !.job_id = job_id, !.key = key]

\* search_jobs, src/app.py:344-378: parse the body, derive the cache key and
\* look it up; a fresh entry is served, a stale one deleted.
SearchRequest(t, body) ==
    /\ pc[t] = "idle"
    /\ IF body.job_title = None
       THEN /\ pc' = [pc EXCEPT ![t] = "done"]
            /\ req' = [req EXCEPT ![t] = [NewReq("search", body, "", "")
                                             EXCEPT !.status = 400]]
            /\ cache' = cache
       ELSE LET cache_key == SearchKey(body) IN
            IF cache_key \in DOMAIN cache
            THEN IF Fresh(cache[cache_key], now)
                 THEN /\ pc' = [pc EXCEPT ![t] = "done"]
                      /\ req' = [req EXCEPT ![t] =
                                    [NewReq("search", body, "", cache_key)
                                        EXCEPT !.status = 200, !.cached = TRUE,
                                               !.served = cache[cache_key].data]]
                      /\ cache' = cache
                 ELSE /\ cache' = CacheDel(cache, cache_key)
                      /\ pc' = [pc EXCEPT ![t] = "throttle"]
                      /\ req' = [req EXCEPT ![t] = NewReq("search", body, "", cache_key)]
            ELSE /\ cache' = cache
                 /\ pc' = [pc EXCEPT ![t] = "throttle"]
                 /\ req' = [req EXCEPT ![t] = NewReq("search", body, "", cache_key)]
    /\ UNCHANGED << now, throttle, attempts, last_put, evicted, upstream_failed, denied >>

\* A hit refreshes the entry's timestamp, as an LRU cache would.
JobRequestRefreshing(t, job_id) ==
    /\ pc[t] = "idle"
    /\ LET cache_key == job_cache_key(job_id) IN
       IF CacheHit(cache, cache_key, now)
       THEN /\ pc' = [pc EXCEPT ![t] = "done"]
            /\ req' = [req EXCEPT ![t] =
                          [NewReq("detail", NoBody, job_id, cache_key)
                              EXCEPT !.status = 200, !.cached = TRUE,
                                     !.served = cache[cache_key].data]]
            /\ cache' = [cache EXCEPT ![cache_key].timestamp = now]
       ELSE /\ pc' = [pc EXCEPT ![t] = "throttle"]
            /\ req' = [req EXCEPT ![t] = NewReq("detail", NoBody, job_id, cache_key)]
            /\ cache' = cache
    /\ UNCHANGED << now, throttle, attempts, last_put, evicted, upstream_failed, denied >>

\* get_job, src/app.py:455-464: derive the cache key and look it up; a fresh
\* entry is served, a stale one is left where it is.
JobRequest(t, job_id) ==
    /\ pc[t] = "idle"
    /\ LET cache_key == job_cache_key(job_id) IN
       IF CacheHit(cache, cache_key, now)
       THEN /\ pc' = [pc EXCEPT ![t] = "done"]
            /\ req' = [req EXCEPT ![t] =
                          [NewReq("detail", NoBody, job_id, cache_key)
                              EXCEPT !.status = 200, !.cached = TRUE,
                                     !.served = cache[cache_key].data]]
       ELSE /\ pc' = [pc EXCEPT ![t] = "throttle"]
            /\ req' = [req EXCEPT ![t] = NewReq("detail", NoBody, job_id, cache_key)]
    /\ UNCHANGED << now, cache, throttle, attempts, last_put, evicted, upstream_failed, denied >>

(***************************************************************************)
(* The throttle: rate_limit's decorated_function, src/app.py:55-79, which  *)
(* wraps search_jobs_api and get_job_details_api whole.                    *)
(***************************************************************************)
\* Nothing is ever dropped from the window.
PruneNothing(timestamps, t) == timestamps

\* A timestamp of exactly one hour ago is kept: >= where the code has >.
PruneInclusive(timestamps, t) == SelectSeq(timestamps, LAMBDA ts : ts >= t - HOUR)

\* request_timestamps = [ts for ts in request_timestamps if ts > one_hour_ago]
Prune(timestamps, t) == SelectSeq(timestamps, LAMBDA ts : ts > t - HOUR)

\* The quota lets one call too many through: <= where the code has <.
check_hourly_limit_inclusive(pruned) == Len(pruned) <= MAX_REQUESTS_PER_HOUR

\* check_hourly_limit's verdict on the pruned window, src/app.py:48-50.
check_hourly_limit(pruned) == Len(pruned) < MAX_REQUESTS_PER_HOUR

\* sleep_time of src/app.py:70-73, 0 when no sleep is needed.
SpacingSleep(time_since_last, jitter) ==
    LET required_delay == MIN_REQUEST_INTERVAL + jitter
    IN  IF time_since_last < required_delay
        THEN required_delay - time_since_last
        ELSE 0

\* src/app.py:58-73: the quota check, then the spacing delay is computed and
\* the sleep begins.
ThrottleCheck(t, jitter) ==
    /\ pc[t] = "throttle"
    /\ LET pruned == Prune(request_timestamps, now) IN
       /\ request_timestamps' = pruned
       /\ denied' = (denied \/ ~ check_hourly_limit(pruned))
       /\ IF ~ check_hourly_limit(pruned)
          THEN /\ pc' = [pc EXCEPT ![t] = "handle"]
               /\ req' = [req EXCEPT ![t].checks = @ + 1,
                                     ![t].error = "quota"]
          ELSE /\ pc' = [pc EXCEPT ![t] = "spacing"]
               /\ req' = [req EXCEPT ![t].checks = @ + 1,
                                     ![t].wake = now + SpacingSleep(now - last_request_time,
                                                                    jitter)]
    /\ UNCHANGED << now, cache, last_request_time, request_count, attempts,
                    last_put, evicted, upstream_failed >>

\* A sleeping thread wakes when its sleep is over; no thread that sleeps
\* until an earlier time is overtaken.
CanWake(t) ==
    \A u \in Threads \ {t} :
      pc[u] \in {"spacing", "backoff"} =>
          (req[u].wake <= now \/ req[u].wake >= req[t].wake)

\* src/app.py:73-79: the sleep ends, the call is recorded and f is entered.
ThrottlePass(t) ==
    /\ pc[t] = "spacing"
    /\ request_count < MaxCalls
    /\ CanWake(t)
    /\ now' = Max(now, req[t].wake)
    /\ last_request_time' = now'
    /\ request_count' = request_count + 1
    /\ request_timestamps' = Append(request_timestamps, now')
    /\ pc' = [pc EXCEPT ![t] = "attempt"]
    /\ req' = [req EXCEPT ![t].passes = @ + 1, ![t].attempt = 0]
    /\ UNCHANGED << cache, attempts, last_put, evicted, upstream_failed, denied >>

(***************************************************************************)
(* The upstream client: the retry loops of search_jobs_api and             *)
(* get_job_details_api.  An attempt that is answered, or refused, takes    *)
(* less than a second and so no time on the model's clock; one that times  *)
(* out takes the (connect) timeout.                                        *)
(***************************************************************************)
Outcomes == { "ok", "403", "http", "timeout", "error" }

\* What a 200 response carries: a usable payload, a payload without results
\* (empty results, or no job in pageProps), JSON of another shape, or the
\* JSON value null.
Payloads == { "data", "empty", "malformed", "null" }

\* response.json(): the JSON value null is Python's None, which is also what
\* a call returns for "no result".
json(payload) == IF payload = "null" THEN "none" ELSE payload

RECURSIVE Pow2(_)
Pow2(n) == IF n = 0 THEN 1 ELSE 2 * Pow2(n - 1)

\* The backoff does not grow with the attempt.
flat_wait_time(attempt) == BackoffBase

\* wait_time = (2 ** attempt) * 10
wait_time(attempt) == Pow2(attempt) * BackoffBase

\* The loop goes round once more after every pass, the last included.
CanRetryAlways(attempt) == attempt < max_retries

\* if attempt < max_retries - 1
CanRetry(attempt) == attempt < max_retries - 1

\* The trailing hour of the attempt history, with the attempt begun at time t.
LogAttempt(log, t) == Append(SelectSeq(log, LAMBDA a : a > t - HOUR), t)

\* return result, error: back in the handler.
Return(t, outcome, result, error) ==
    /\ pc' = [pc EXCEPT ![t] = "handle"]
    /\ req' = [req EXCEPT ![t].outcomes = Append(@, outcome),
                          ![t].result = result, ![t].error = error]

\* time.sleep(wait); continue
SleepAndRetry(t, outcome, from, wait) ==
    /\ pc' = [pc EXCEPT ![t] = "backoff"]
    /\ req' = [req EXCEPT ![t].outcomes = Append(@, outcome),
                          ![t].sleeps = Append(@, wait),
                          ![t].wake = from + wait]

\* The attempt is the first of its call not to return a usable payload.  The
\* upstream does this to one call of a run, on any of that call's attempts;
\* the other calls are answered with a usable payload at once.
FirstFailure(t, outcome, payload) ==
    /\ req[t].outcomes = << >>
    /\ ~ (outcome = "ok" /\ payload = "data")

\* One pass of the loop body of search_jobs_api, src/app.py:112-151.
SearchAttempt(t, outcome, payload) ==
    /\ pc[t] = "attempt"
    /\ req[t].kind = "search"
    /\ FirstFailure(t, outcome, payload) => ~ upstream_failed
    /\ upstream_failed' = (upstream_failed \/ FirstFailure(t, outcome, payload))
    /\ attempts' = LogAttempt(attempts, now)
    /\ LET attempt == req[t].attempt IN
       CASE outcome = "ok" ->
              /\ now' = now
              /\ Return(t, outcome, json(payload), "none")
         [] outcome = "403" ->
              /\ now' = now
              /\ IF CanRetry(attempt)
                 THEN SleepAndRetry(t, outcome, now, wait_time(attempt))
                 ELSE Return(t, outcome, "none", "rate_limited")
         [] outcome = "http" ->
              /\ now' = now
              /\ Return(t, outcome, "none", "http")
         [] outcome = "timeout" ->
              /\ now' = now + SearchConnectTimeout
              /\ IF CanRetry(attempt)
                 THEN SleepAndRetry(t, outcome, now', SearchTimeoutSleep)
                 ELSE Return(t, outcome, "none", "timeout")
         [] outcome = "error" ->
              /\ now' = now
              /\ Return(t, outcome, "none", "str_e")
    /\ UNCHANGED << cache, throttle, last_put, evicted, denied >>

\* One pass of the loop body of get_job_details_api, src/app.py:161-191.
DetailAttempt(t, outcome, payload) ==
    /\ pc[t] = "attempt"
    /\ req[t].kind = "detail"
    /\ FirstFailure(t, outcome, payload) => ~ upstream_failed
    /\ upstream_failed' = (upstream_failed \/ FirstFailure(t, outcome, payload))
    /\ attempts' = LogAttempt(attempts, now)
    /\ LET attempt == req[t].attempt IN
       CASE outcome = "ok" ->
              /\ now' = now
              /\ Return(t, outcome, json(payload), "none")
         [] outcome = "403" ->
              /\ now' = now
              /\ IF CanRetry(attempt)
                 THEN SleepAndRetry(t, outcome, now, wait_time(attempt))
                 ELSE Return(t, outcome, "none", "http")
         [] outcome = "http" ->
              /\ now' = now
              /\ Return(t, outcome, "none", "http")
         [] outcome = "timeout" ->
              /\ now' = now + DetailTimeout
              /\ IF CanRetry(attempt)
                 THEN SleepAndRetry(t, outcome, now', DetailRetrySleep)
                 ELSE Return(t, outcome, "none", "str_e")
         [] outcome = "error" ->
              /\ now' = now
              /\ IF CanRetry(attempt)
                 THEN SleepAndRetry(t, outcome, now, DetailRetrySleep)
                 ELSE Return(t, outcome, "none", "str_e")
    /\ UNCHANGED << cache, throttle, last_put, evicted, denied >>

\* The sleep of a retry ends and the loop head is reached again
\* (for attempt in range(max_retries)); past the last pass the function falls
\* through to return None, "Max retries exceeded".
BackoffWake(t) ==
    /\ pc[t] = "backoff"
    /\ CanWake(t)
    /\ now' = Max(now, req[t].wake)
    /\ IF req[t].attempt + 1 < max_retries
       THEN /\ pc' = [pc EXCEPT ![t] = "attempt"]
            /\ req' = [req EXCEPT ![t].attempt = @ + 1]
       ELSE /\ pc' = [pc EXCEPT ![t] = "handle"]
            /\ req' = [req EXCEPT ![t].attempt = @ + 1, ![t].error = "max_retries"]
    /\ UNCHANGED << cache, throttle, attempts, last_put, evicted, upstream_failed, denied >>

(***************************************************************************)
(* The handlers, after the upstream call.                                  *)
(***************************************************************************)
\* The newest entries are evicted: max where the code has min.
Newest(c) == { k \in DOMAIN c : \A j \in DOMAIN c : c[k].timestamp >= c[j].timestamp }

\* The keys min(cache.keys(), key=lambda k: cache[k]['timestamp']) may return:
\* those of the smallest timestamp (among equal ones, dict order decides).
Oldest(c) == { k \in DOMAIN c : \A j \in DOMAIN c : c[k].timestamp <= c[j].timestamp }

\* Nothing counts as no result: an empty or null payload is stored too.
NeverFalsy(result) == FALSE

\* if not results / if not job: the payload is empty, or None.
Falsy(result) == result \in { "empty", "none" }

\* if len(cache) > 100
OverCapacity(c) == Cardinality(DOMAIN c) > CACHE_MAX

\* search_jobs, src/app.py:389-435.
SearchHandle(t) ==
    /\ pc[t] = "handle"
    /\ req[t].kind = "search"
    /\ IF req[t].error # "none"
       THEN /\ Respond(t, 503, FALSE, NoData)
            /\ UNCHANGED << cache, last_put, evicted >>
       ELSE IF Falsy(req[t].result)
       THEN /\ Respond(t, 404, FALSE, NoData)
            /\ UNCHANGED << cache, last_put, evicted >>
       ELSE IF req[t].result = "malformed"
       THEN /\ Respond(t, 500, FALSE, NoData)
            /\ UNCHANGED << cache, last_put, evicted >>
       ELSE LET cache_key == req[t].key
                response_data == SearchData(req[t].body)
                stored == CachePut(cache, cache_key,
                                   [timestamp |-> now, data |-> response_data])
            IN  /\ IF OverCapacity(stored)
                   THEN \E oldest_key \in Oldest(stored) :
                          /\ cache' = CacheDel(stored, oldest_key)
                          /\ evicted' = (evicted \ {cache_key}) \cup {oldest_key}
                   ELSE /\ cache' = stored
                        /\ evicted' = evicted \ {cache_key}
                /\ last_put' = [last_put EXCEPT ![cache_key] = now]
                /\ Respond(t, 200, FALSE, response_data)
    /\ UNCHANGED << now, throttle, attempts, upstream_failed, denied >>

\* get_job, src/app.py:472-509.
JobHandle(t) ==
    /\ pc[t] = "handle"
    /\ req[t].kind = "detail"
    /\ IF req[t].error # "none"
       THEN /\ Respond(t, 503, FALSE, NoData)
            /\ UNCHANGED << cache, last_put, evicted >>
       ELSE IF req[t].result \in { "malformed", "none" }
       THEN /\ Respond(t, 500, FALSE, NoData)
            /\ UNCHANGED << cache, last_put, evicted >>
       ELSE IF Falsy(req[t].result)
       THEN /\ Respond(t, 404, FALSE, NoData)
            /\ UNCHANGED << cache, last_put, evicted >>
       ELSE LET cache_key == req[t].key
                formatted_job == JobData(req[t].job_id)
            IN  /\ cache' = CachePut(cache, cache_key,
                                     [timestamp |-> now, data |-> formatted_job])
                /\ evicted' = evicted \ {cache_key}
                /\ last_put' = [last_put EXCEPT ![cache_key] = now]
                /\ Respond(t, 200, FALSE, formatted_job)
    /\ UNCHANGED << now, throttle, attempts, upstream_failed, denied >>

\* health, src/app.py:304-312: reports request_count and len(cache).
health(t) ==
    /\ pc[t] = "idle"
    /\ pc' = [pc EXCEPT ![t] = "done"]
    /\ req' = [req EXCEPT ![t] = [NoReq EXCEPT !.kind = "health", !.status = 200]]
    /\ UNCHANGED << now, cache, throttle, attempts, last_put, evicted, upstream_failed, denied >>

\* stats, src/app.py:314-327: counts the timestamps of the last hour in a
\* list of its own; the window itself is left as it is.
stats(t) ==
    /\ pc[t] = "idle"
    /\ LET recent_requests == Len(Prune(request_timestamps, now)) IN
       req' = [req EXCEPT ![t] = [NoReq EXCEPT !.kind = "stats", !.status = 200,
                                               !.recent_requests = recent_requests]]
    /\ pc' = [pc EXCEPT ![t] = "done"]
    /\ UNCHANGED << now, cache, throttle, attempts, last_put, evicted, upstream_failed, denied >>

\* The response is sent; the thread is free for the next request.
Finish(t) ==
    /\ pc[t] = "done"
    /\ pc' = [pc EXCEPT ![t] = "idle"]
    /\ req' = [req EXCEPT ![t] = NoReq]
    /\ UNCHANGED << now, cache, throttle, attempts, last_put, evicted, upstream_failed, denied >>

\* Time passes while no request is being served.
Idle(d) ==
    /\ \A t \in Threads : pc[t] = "idle"
    /\ now + d <= MaxTime
    /\ now' = now + d
    /\ UNCHANGED << cache, throttle, pc, req, attempts, last_put, evicted, upstream_failed, denied >>

Next ==
    \/ \E d \in IdleSteps : Idle(d)
    \/ \E t \in SerialThreads, body \in SearchBodies : SearchRequest(t, body)
    \/ \E t \in SerialThreads, job_id \in JobIds : JobRequest(t, job_id)
    \/ \E t \in SerialThreads, jitter \in Jitter : ThrottleCheck(t, jitter)
    \/ \E t \in SerialThreads : ThrottlePass(t)
    \/ \E t \in SerialThreads, o \in Outcomes, p \in Payloads : SearchAttempt(t, o, p)
    \/ \E t \in SerialThreads, o \in Outcomes, p \in Payloads : DetailAttempt(t, o, p)
    \/ \E t \in SerialThreads : BackoffWake(t)
    \/ \E t \in SerialThreads : SearchHandle(t)
    \/ \E t \in SerialThreads : JobHandle(t)
    \/ \E t \in SerialThreads : health(t)
    \/ \E t \in SerialThreads : stats(t)
    \/ \E t \in SerialThreads : Finish(t)

Spec == Init /\ [][Next]_vars

\* The steps a request's thread takes by itself once the request is taken up:
\* the thread is scheduled, its sleeps end and each upstream attempt is over
\* at the latest when its timeout expires.
ThreadStep(t) ==
    \/ \E jitter \in Jitter : ThrottleCheck(t, jitter)
    \/ ThrottlePass(t)
    \/ \E o \in Outcomes, p \in Payloads : SearchAttempt(t, o, p)
    \/ \E o \in Outcomes, p \in Payloads : DetailAttempt(t, o, p)
    \/ BackoffWake(t)
    \/ SearchHandle(t)
    \/ JobHandle(t)
    \/ Finish(t)

\* One search query and one job id: what a call does once it has passed the
\* throttle does not depend on the key of its request.
CallBodies ==
    { [job_title |-> Some("dev"), workplace_types |-> DefaultWorkplaceTypes,
       location_filter |-> None, page |-> 0, size |-> DefaultSize] }

CallJobIds == { "42" }

CallNext ==
    \/ \E d \in IdleSteps : Idle(d)
    \/ \E t \in SerialThreads, body \in CallBodies : SearchRequest(t, body)
    \/ \E t \in SerialThreads, job_id \in CallJobIds : JobRequest(t, job_id)
    \/ \E t \in SerialThreads : ThreadStep(t)

\* The server with threads that keep running.
FairSpec ==
    Init /\ [][CallNext]_vars /\ \A t \in SerialThreads : WF_vars(ThreadStep(t))

\* How far the clock moves at once while the quota is watched: half an hour
\* or an hour.
WaitSteps == { HOUR \div 2, HOUR }

\* Time passes between requests for as long as the quota is used up: as
\* many granted calls as the cap allows are less than an hour old.
TimePasses(d) ==
    /\ \A t \in Threads : pc[t] = "idle"
    /\ Cardinality({ i \in 1 .. Len(request_timestamps) :
                       now - request_timestamps[i] < HOUR }) >= MAX_REQUESTS_PER_HOUR
    /\ now' = now + d
    /\ UNCHANGED << cache, throttle, pc, req, attempts, last_put, evicted,
                    upstream_failed, denied >>

QuotaNext ==
    \/ CallNext
    \/ \E d \in WaitSteps : TimePasses(d)

\* The server with threads that keep running and a clock that keeps
\* advancing: time passes again and again, however many requests arrive.
QuotaSpec ==
    /\ Init /\ [][QuotaNext]_vars
    /\ \A t \in SerialThreads : WF_vars(ThreadStep(t))
    /\ SF_vars(\E d \in WaitSteps : TimePasses(d))

(***************************************************************************)
(* The threaded server.  app.run serves every request on a thread of its   *)
(* own and the code takes no lock, so between any two accesses of a thread *)
(* to cache or to the throttle state another thread may run.  The handlers *)
(* are split here at each access to the cache; the throttle is split       *)
(* between check and record already.                                       *)
(***************************************************************************)
\* search_jobs, src/app.py:344-366: parse the body, derive the key and test
\* `cache_key in cache`.
SearchLookup(t, body) ==
    /\ pc[t] = "idle"
    /\ IF body.job_title = None
       THEN /\ pc' = [pc EXCEPT ![t] = "done"]
            /\ req' = [req EXCEPT ![t] = [NewReq("search", body, "", "")
                                             EXCEPT !.status = 400]]
       ELSE LET cache_key == SearchKey(body) IN
            /\ pc' = [pc EXCEPT ![t] =
                          IF cache_key \in DOMAIN cache THEN "read" ELSE "throttle"]
            /\ req' = [req EXCEPT ![t] = NewReq("search", body, "", cache_key)]
    /\ UNCHANGED << now, cache, throttle, attempts, last_put, evicted, upstream_failed, denied >>

\* get_job, src/app.py:455-456: derive the key and test `cache_key in cache`.
JobLookup(t, job_id) ==
    /\ pc[t] = "idle"
    /\ LET cache_key == job_cache_key(job_id) IN
       /\ pc' = [pc EXCEPT ![t] =
                     IF cache_key \in DOMAIN cache THEN "read" ELSE "throttle"]
       /\ req' = [req EXCEPT ![t] = NewReq("detail", NoBody, job_id, cache_key)]
    /\ UNCHANGED << now, cache, throttle, attempts, last_put, evicted, upstream_failed, denied >>

\* An exception in a handler: caught by its `except Exception`, answered 500.
Raise(t, exception) ==
    /\ pc' = [pc EXCEPT ![t] = "done"]
    /\ req' = [req EXCEPT ![t].error = exception, ![t].status = 500]

\* cache_entry = cache[cache_key] and the age test on it, src/app.py:367-368
\* and 457-458: KeyError when the entry has gone since the membership test.
CacheRead(t) ==
    /\ pc[t] = "read"
    /\ LET cache_key == req[t].key IN
       IF cache_key \notin DOMAIN cache
       THEN Raise(t, "KeyError")
       ELSE IF Fresh(cache[cache_key], now)
       THEN Respond(t, 200, TRUE, cache[cache_key].data)
       ELSE /\ pc' = [pc EXCEPT ![t] =
                          IF req[t].kind = "search" THEN "expire" ELSE "throttle"]
            /\ req' = req
    /\ UNCHANGED << now, cache, throttle, attempts, last_put, evicted, upstream_failed, denied >>

\* del cache[cache_key], src/app.py:378: KeyError when the entry has gone.
CacheExpire(t) ==
    /\ pc[t] = "expire"
    /\ IF req[t].key \notin DOMAIN cache
       THEN /\ Raise(t, "KeyError")
            /\ cache' = cache
       ELSE /\ cache' = CacheDel(cache, req[t].key)
            /\ pc' = [pc EXCEPT ![t] = "throttle"]
            /\ req' = req
    /\ UNCHANGED << now, throttle, attempts, last_put, evicted, upstream_failed, denied >>

\* src/app.py:389-424 and 472-501: the upstream result is examined and, when
\* usable, stored: cache[cache_key] = {...}.
CacheStore(t) ==
    /\ pc[t] = "handle"
    /\ IF req[t].error # "none"
       THEN /\ Respond(t, 503, FALSE, NoData)
            /\ UNCHANGED << cache, last_put, evicted >>
       ELSE IF req[t].kind = "detail" /\ req[t].result \in { "malformed", "none" }
       THEN /\ Respond(t, 500, FALSE, NoData)
            /\ UNCHANGED << cache, last_put, evicted >>
       ELSE IF Falsy(req[t].result)
       THEN /\ Respond(t, 404, FALSE, NoData)
            /\ UNCHANGED << cache, last_put, evicted >>
       ELSE IF req[t].result = "malformed"
       THEN /\ Respond(t, 500, FALSE, NoData)
            /\ UNCHANGED << cache, last_put, evicted >>
       ELSE LET cache_key == req[t].key
                data == IF req[t].kind = "search"
                        THEN SearchData(req[t].body) ELSE JobData(req[t].job_id)
            IN  /\ cache' = CachePut(cache, cache_key,
                                     [timestamp |-> now, data |-> data])
                /\ evicted' = evicted \ {cache_key}
                /\ last_put' = [last_put EXCEPT ![cache_key] = now]
                /\ IF req[t].kind = "search"
                   THEN /\ pc' = [pc EXCEPT ![t] = "capacity"]
                        /\ req' = [req EXCEPT ![t].served = data]
                   ELSE Respond(t, 200, FALSE, data)
    /\ UNCHANGED << now, throttle, attempts, upstream_failed, denied >>

\* if len(cache) > 100, src/app.py:427.
CapacityCheck(t) ==
    /\ pc[t] = "capacity"
    /\ IF OverCapacity(cache)
       THEN /\ pc' = [pc EXCEPT ![t] = "scan"]
            /\ req' = req
       ELSE Respond(t, 200, FALSE, req[t].served)
    /\ UNCHANGED << now, cache, throttle, attempts, last_put, evicted, upstream_failed, denied >>

\* oldest_key = min(cache.keys(), key=...), src/app.py:428: ValueError when
\* the cache has been emptied since the length test.
EvictScan(t) ==
    /\ pc[t] = "scan"
    /\ IF DOMAIN cache = {}
       THEN Raise(t, "ValueError")
       ELSE \E oldest_key \in Oldest(cache) :
              /\ pc' = [pc EXCEPT ![t] = "evict"]
              /\ req' = [req EXCEPT ![t].oldest_key = oldest_key]
    /\ UNCHANGED << now, cache, throttle, attempts, last_put, evicted, upstream_failed, denied >>

\* del cache[oldest_key], src/app.py:429: KeyError when the entry has gone
\* since the scan.
EvictDelete(t) ==
    /\ pc[t] = "evict"
    /\ IF req[t].oldest_key \notin DOMAIN cache
       THEN /\ Raise(t, "KeyError")
            /\ UNCHANGED << cache, evicted >>
       ELSE /\ cache' = CacheDel(cache, req[t].oldest_key)
            /\ evicted' = evicted \cup { req[t].oldest_key }
            /\ Respond(t, 200, FALSE, req[t].served)
    /\ UNCHANGED << now, throttle, attempts, last_put, upstream_failed, denied >>

\* The requests of the threaded server: two search queries and one job id,
\* three keys for a cache of CACHE_MAX entries.
ThreadedBodies ==
    { [job_title |-> Some("dev"), workplace_types |-> DefaultWorkplaceTypes,
       location_filter |-> None, page |-> 0, size |-> DefaultSize],
      [job_title |-> Some("job"), workplace_types |-> << >>,
       location_filter |-> Some("x"), page |-> 0, size |-> 0] }

ThreadedJobIds == { "42" }

\* The upstream answers every attempt with a usable payload.
ThreadedNext ==
    \/ \E d \in IdleSteps : Idle(d)
    \/ \E t \in Threads, body \in ThreadedBodies : SearchLookup(t, body)
    \/ \E t \in Threads, job_id \in ThreadedJobIds : JobLookup(t, job_id)
    \/ \E t \in Threads : CacheRead(t)
    \/ \E t \in Threads : CacheExpire(t)
    \/ \E t \in Threads, jitter \in Jitter : ThrottleCheck(t, jitter)
    \/ \E t \in Threads : ThrottlePass(t)
    \/ \E t \in Threads : SearchAttempt(t, "ok", "data")
    \/ \E t \in Threads : DetailAttempt(t, "ok", "data")
    \/ \E t \in Threads : CacheStore(t)
    \/ \E t \in Threads : CapacityCheck(t)
    \/ \E t \in Threads : EvictScan(t)
    \/ \E t \in Threads : EvictDelete(t)
    \/ \E t \in Threads : Finish(t)

ThreadedSpec == Init /\ [][ThreadedNext]_vars

(***************************************************************************)
(* Properties.                                                             *)
(***************************************************************************)
\* The attempts of the history that began in the hour ending with attempt i.
AttemptsInHourTo(i) ==
    { j \in 1 .. Len(attempts) :
        attempts[j] > attempts[i] - HOUR /\ attempts[j] <= attempts[i] }

\* C1: counting every upstream attempt, first attempts and retries alike, no
\* more than MAX_REQUESTS_PER_HOUR attempts begin within any trailing hour.
C1_HourlyAttemptCap ==
    \A i \in 1 .. Len(attempts) :
        Cardinality(AttemptsInHourTo(i)) <= MAX_REQUESTS_PER_HOUR

\* C2: any two consecutive upstream attempts begin at least
\* MIN_REQUEST_INTERVAL seconds apart.
C2_AttemptSpacing ==
    \A i \in 1 .. Len(attempts) - 1 :
        attempts[i + 1] - attempts[i] >= MIN_REQUEST_INTERVAL

\* C3: the cache never holds more than its capacity of entries.
C3_CacheBounded == Cardinality(DOMAIN cache) <= CACHE_MAX

\* C4: at every time and for every key, a lookup serves a cached value if and
\* only if the key was stored less than CACHE_DURATION ago and has not been
\* evicted for capacity since that store.
C4_HitIffStoredAndKept ==
    \A k \in AllKeys :
        CacheHit(cache, k, now) <=>
            /\ last_put[k] >= 0
            /\ now - last_put[k] < CACHE_DURATION
            /\ k \notin evicted

\* C4 witness: a request has just missed on a key that was stored less than
\* CACHE_DURATION ago and evicted since, and another key is served.
C4_Witness ==
    /\ \E t \in Threads :
         /\ pc[t] = "throttle"
         /\ req[t].key \in evicted
         /\ now - last_put[req[t].key] < CACHE_DURATION
    /\ \E k \in AllKeys : CacheHit(cache, k, now)

\* The timestamp an entry has once `key` is stored at time `t`.
StampAfterPut(c, key, t, k) == IF k = key THEN t ELSE c[k].timestamp

\* C5: a store that removes an entry for capacity removes exactly one, and
\* one of the smallest insertion timestamp among all entries then present,
\* the stored one included; the stored entry stays while an older one exists.
C5_EvictsOldestOnly ==
    [][ \A t \in Threads :
          (pc[t] = "handle" /\ pc'[t] = "done" /\ req'[t].status = 200) =>
            LET key == req[t].key
                present == (DOMAIN cache) \cup {key}
                removed == present \ DOMAIN cache'
            IN  /\ Cardinality(removed) <= 1
                /\ \A r \in removed : \A k \in present :
                      StampAfterPut(cache, key, now, r) <= StampAfterPut(cache, key, now, k)
                /\ (\E k \in DOMAIN cache : k # key /\ cache[k].timestamp < now)
                      => key \in DOMAIN cache'
                /\ \A k \in DOMAIN cache' :
                      cache'[k].timestamp = StampAfterPut(cache, key, now, k)
      ]_vars

\* C5 witness: a store has just evicted an entry while, of the entries that
\* were present, two had different timestamps.
C5_Witness ==
    \E t \in Threads :
        /\ pc[t] = "done"
        /\ req[t].status = 200
        /\ ~ req[t].cached
        /\ evicted # {}
        /\ \E k \in evicted : k # req[t].key /\ last_put[k] >= 0
        /\ Cardinality({ cache[k].timestamp : k \in DOMAIN cache }) >= 2

\* Thread t takes up a request with a valid body in this step.
Begins(t) == pc[t] = "idle" /\ pc'[t] # "idle" /\ req'[t].status # 400

\* C6: a request whose key has an entry younger than CACHE_DURATION is served
\* from the cache, and serving it starts no upstream attempt and changes
\* neither the throttle state nor the cache, timestamps included.
C6_HitChangesNothing ==
    [][ \A t \in Threads :
          /\ (Begins(t) /\ req'[t].key \in DOMAIN cache
                /\ now - cache[req'[t].key].timestamp < CACHE_DURATION)
                => (pc'[t] = "done" /\ req'[t].cached)
          /\ (Begins(t) /\ req'[t].cached) =>
                /\ pc'[t] = "done"
                /\ req'[t].status = 200
                /\ req'[t].outcomes = << >>
                /\ req'[t].passes = 0
                /\ req'[t].served = cache[req'[t].key].data
                /\ attempts' = attempts
                /\ last_request_time' = last_request_time
                /\ request_count' = request_count
                /\ request_timestamps' = request_timestamps
                /\ cache' = cache
      ]_vars

\* C6 witness: a request has just been served from an entry that an earlier
\* call stored at an earlier time.
C6_Witness ==
    \E t \in Threads :
        /\ pc[t] = "done"
        /\ req[t].cached
        /\ request_count >= 1
        /\ last_put[req[t].key] >= 0
        /\ now > last_put[req[t].key]

\* The call of thread t has returned to its handler.
Returned(t) == pc[t] \in { "handle", "done" }

AllAre(outcomes, o) == \A i \in 1 .. Len(outcomes) : outcomes[i] = o

\* C7: a search call answered by 403 every time makes exactly 3 attempts,
\* sleeping 10 s after the first and 20 s after the second, and returns the
\* rate-limited error at the third with no further sleep.
C7_Search403 ==
    \A t \in Threads :
        (req[t].kind = "search" /\ req[t].outcomes # << >> /\ AllAre(req[t].outcomes, "403")) =>
            /\ Len(req[t].outcomes) <= max_retries
            /\ req[t].sleeps = [i \in 1 .. Len(req[t].sleeps) |-> i * BackoffBase]
            /\ pc[t] = "backoff" => Len(req[t].sleeps) = Len(req[t].outcomes)
                                    /\ Len(req[t].outcomes) < max_retries
                                    /\ req[t].wake = now + Len(req[t].outcomes) * BackoffBase
            /\ Returned(t) =>
                 /\ Len(req[t].outcomes) = max_retries
                 /\ req[t].sleeps = << BackoffBase, 2 * BackoffBase >>
                 /\ req[t].error = "rate_limited"
                 /\ Len(attempts) >= max_retries
                 /\ now = attempts[Len(attempts)]
                 /\ attempts[Len(attempts)] - attempts[Len(attempts) - 1] = 2 * BackoffBase
                 /\ attempts[Len(attempts) - 1] - attempts[Len(attempts) - 2] = BackoffBase
                 /\ (pc[t] = "done" => req[t].status = 503)

\* C7 witness: a search call has returned after three 403 responses.
C7_Witness ==
    \E t \in Threads :
        /\ pc[t] = "done"
        /\ req[t].kind = "search"
        /\ req[t].outcomes = << "403", "403", "403" >>

\* C8: a call that finds the pruned window at the hourly cap is denied with
\* the quota error: no upstream attempt, no delay, and last_request_time,
\* request_count and the window, apart from the pruning, stay as they were.
C8_DenialChangesNothing ==
    [][ \A t \in Threads :
          LET pruned == SelectSeq(request_timestamps, LAMBDA ts : ts > now - HOUR) IN
          /\ (pc[t] = "throttle" /\ pc'[t] # "throttle"
                /\ Len(pruned) >= MAX_REQUESTS_PER_HOUR) =>
                /\ pc'[t] = "handle"
                /\ req'[t].error = "quota"
                /\ req'[t].result = "none"
                /\ req'[t].outcomes = << >>
                /\ req'[t].passes = 0
                /\ now' = now
                /\ attempts' = attempts
                /\ last_request_time' = last_request_time
                /\ request_count' = request_count
                /\ request_timestamps' = pruned
                /\ cache' = cache
          /\ (pc[t] = "handle" /\ req[t].error = "quota" /\ pc'[t] # "handle") =>
                /\ pc'[t] = "done"
                /\ req'[t].status = 503
                /\ req'[t].outcomes = << >>
                /\ UNCHANGED << now, attempts, cache, throttle >>
      ]_vars

\* C8 witness: a call has been denied and its request answered, with the
\* window at the cap.
C8_Witness ==
    \E t \in Threads :
        /\ pc[t] = "done"
        /\ req[t].error = "quota"
        /\ Len(request_timestamps) >= MAX_REQUESTS_PER_HOUR

\* C9: a call that has made n attempts has passed the throttle n times: n
\* quota checks, n timestamps appended to the window.
C9_ThrottlePerAttempt ==
    \A t \in Threads :
        Returned(t) /\ req[t].outcomes # << >> =>
            /\ req[t].checks = Len(req[t].outcomes)
            /\ req[t].passes = Len(req[t].outcomes)

\* C10: an attempt that fails with a non-403 HTTP status or with an exception
\* that is no timeout ends its call: it is the call's last attempt and no
\* sleep follows it.
C10_NoRetryOnOtherErrors ==
    \A t \in Threads :
        \A i \in 1 .. Len(req[t].outcomes) :
            req[t].outcomes[i] \in { "http", "error" } =>
                /\ i = Len(req[t].outcomes)
                /\ Returned(t)
                /\ Len(req[t].sleeps) = i - 1

\* C11: for search and for detail alike, the error of a call that used up its
\* attempts names the kind of failure: three 403 responses give the
\* rate-limited error, three timeouts the timeout error, and neither is the
\* error of a non-403 HTTP status or of a generic failure.
C11_ExhaustionErrorKinds ==
    \A t \in Threads :
        (Returned(t) /\ Len(req[t].outcomes) = max_retries) =>
            /\ AllAre(req[t].outcomes, "403") => req[t].error = "rate_limited"
            /\ AllAre(req[t].outcomes, "timeout") => req[t].error = "timeout"

\* C14: a lookup, of a search or of a detail request, that finds an entry of
\* age CACHE_DURATION or more is a miss and removes the entry in the same
\* step, so that the key stays absent while the upstream call that follows
\* is denied or fails.
C14_StaleEntryRemovedByLookup ==
    [][ \A t \in Threads :
          (Begins(t) /\ req'[t].key \in DOMAIN cache
             /\ now - cache[req'[t].key].timestamp >= CACHE_DURATION) =>
                /\ pc'[t] = "throttle"
                /\ ~ req'[t].cached
                /\ req'[t].key \notin DOMAIN cache'
      ]_vars

\* C15: the keys of search pages and the keys of job details are disjoint, so
\* a detail request is never answered with a stored search page and a search
\* request never with a stored job detail.
C15_KeyspacesDisjoint ==
    \A t \in Threads :
        (pc[t] = "done" /\ req[t].cached) =>
            /\ req[t].kind = "search" => req[t].served.kind = "search"
            /\ req[t].kind = "detail" => req[t].served.kind = "job"

\* What the search key is to identify: title, workplace types in sorted
\* order, location filter (absent or a text), page and capped size.
QueryTuple(body) ==
    << body.job_title, sorted(body.workplace_types), body.location_filter,
       body.page, CapSize(body.size) >>

\* C16: two search requests whose tuples of title, sorted workplace types,
\* location filter, page and capped size differ never share a cache key, no
\* filter and the filter text "None" included: a search served from the
\* cache is served what a request of its own tuple stored.
C16_SearchKeyIdentifiesQuery ==
    \A t \in Threads :
        (pc[t] = "done" /\ req[t].cached /\ req[t].kind = "search"
            /\ req[t].served.kind = "search") =>
                QueryTuple(req[t].served.body) = QueryTuple(req[t].body)

\* C18: whatever integer the request gives as page size, 0 and negative
\* values and values above 100 included, the size that enters the cache key
\* and the upstream payload lies in 1 .. 100.
C18_SizeClamped ==
    \A t \in Threads :
        (req[t].kind = "search" /\ req[t].key # "") =>
            /\ CapSize(req[t].body.size) \in 1 .. SizeCap
            /\ req[t].key = get_cache_key(req[t].body.job_title[1],
                                          req[t].body.workplace_types,
                                          req[t].body.location_filter,
                                          req[t].body.page,
                                          CapSize(req[t].body.size))

\* C17 (as stated): in every reachable state, cache hits, /stats and /health
\* reads and idle periods included, the window holds no timestamp older than
\* one hour.
C17_WindowWithinHour ==
    \A i \in 1 .. Len(request_timestamps) : now - request_timestamps[i] <= HOUR

\* The timestamps of the window that are less than one hour old.
WithinHour(timestamps, t) == SelectSeq(timestamps, LAMBDA ts : t - ts < HOUR)

\* C17 (amended): every quota check leaves in the window exactly the
\* timestamps less than one hour old, and /stats counts exactly those; no
\* other step removes a timestamp, so between checks older ones stay.
C17_PrunedOnEachCheck ==
    [][ /\ \A t \in Threads :
             /\ (pc[t] = "throttle" /\ pc'[t] # "throttle") =>
                   /\ request_timestamps' = WithinHour(request_timestamps, now)
                   /\ \A i \in 1 .. Len(request_timestamps') :
                         now' - request_timestamps'[i] <= HOUR
             /\ (pc[t] = "idle" /\ req'[t].kind = "stats") =>
                   /\ req'[t].recent_requests = Len(WithinHour(request_timestamps, now))
                   /\ request_timestamps' = request_timestamps
        /\ (\A t \in Threads : ~ (pc[t] = "throttle" /\ pc'[t] # "throttle")) =>
              \/ request_timestamps' = request_timestamps
              \/ request_timestamps' = Append(request_timestamps, now')
      ]_vars

\* C17 witness: a quota check has just dropped a timestamp from the window.
C17_Witness ==
    \E t \in Threads :
        /\ pc[t] = "spacing"
        /\ req[t].checks = 1
        /\ Len(request_timestamps) < request_count

\* What a handler stores for the request of thread t.
Normalized(t) ==
    IF req[t].kind = "search" THEN SearchData(req[t].body) ELSE JobData(req[t].job_id)

\* Thread t answers its request in this step, after an upstream call that
\* returned a usable result, with status 200.
StoresResult(t) ==
    /\ pc[t] = "handle"
    /\ pc'[t] = "done"
    /\ req[t].error = "none"
    /\ req[t].result = "data"
    /\ req[t].outcomes # << >>
    /\ req[t].outcomes[Len(req[t].outcomes)] = "ok"
    /\ req'[t].status = 200
    /\ ~ req'[t].cached

\* C19: an entry is created or overwritten only by a request that obtained an
\* upstream result and normalized it; a request that ends in a validation
\* error, a quota denial, an upstream error, an empty result or an internal
\* error adds and overwrites nothing; and an entry is removed only because it
\* has expired or because the cache is over capacity.
C19_EntriesOnlyFromResults ==
    [][ /\ \A k \in DOMAIN cache' :
             (k \notin DOMAIN cache \/ cache'[k] # cache[k]) =>
                 \E t \in Threads :
                     /\ StoresResult(t)
                     /\ req[t].key = k
                     /\ cache'[k] = [timestamp |-> now, data |-> Normalized(t)]
        /\ \A t \in Threads :
             (pc[t] # "done" /\ pc'[t] = "done" /\ req'[t].status # 200) =>
                 \A k \in DOMAIN cache' : k \in DOMAIN cache /\ cache'[k] = cache[k]
        /\ \A k \in (DOMAIN cache) \ (DOMAIN cache') :
             \/ /\ now - cache[k].timestamp >= CACHE_DURATION
                /\ \E t \in Threads : Begins(t) /\ req'[t].key = k
             \/ \E t \in Threads :
                    /\ StoresResult(t)
                    /\ Cardinality((DOMAIN cache) \cup { req[t].key }) > CACHE_MAX
      ]_vars

\* C19 witness: a request has just ended in an error after its upstream call,
\* while the cache holds an entry stored by an earlier request.
C19_Witness ==
    \E t \in Threads :
        /\ pc[t] = "done"
        /\ req[t].status \in { 404, 500, 503 }
        /\ req[t].outcomes # << >>
        /\ DOMAIN cache # {}

\* The call of thread t has passed the throttle.
Passed(t) == req[t].passes >= 1

LastOutcome(t) == req[t].outcomes[Len(req[t].outcomes)]

\* The attempts and sleeps of every call stay within the retry budget, and a
\* returned call has made 1 to 3 attempts with a sleep between each two and
\* has not fallen through the loop.
WithinRetryBudget ==
    \A t \in Threads :
        /\ Len(req[t].outcomes) <= max_retries
        /\ Len(req[t].sleeps) <= max_retries - 1
        /\ pc[t] = "attempt" =>
              req[t].attempt < max_retries /\ Len(req[t].outcomes) = req[t].attempt
        /\ (Returned(t) /\ Passed(t)) =>
              /\ Len(req[t].outcomes) \in 1 .. max_retries
              /\ Len(req[t].sleeps) = Len(req[t].outcomes) - 1
              /\ req[t].error # "max_retries"

\* C20 (as stated): a call that has passed the throttle returns after 1 to 3
\* attempts and at most 2 sleeps, with exactly one of a result and an error,
\* and never with the fall-through error "Max retries exceeded".
C20_ExactlyOneOfResultOrError ==
    /\ WithinRetryBudget
    /\ \A t \in Threads :
          (Returned(t) /\ Passed(t)) =>
              ((req[t].result # "none") <=> (req[t].error = "none"))

\* C20 (amended): every call that has passed the throttle returns, after 1 to
\* 3 attempts and at most 2 sleeps and never by the fall-through; it returns
\* a result and no error, or no result and an error, or, when the last
\* attempt was answered 200 with the JSON value null, neither.
C20_CallTerminates ==
    /\ [] WithinRetryBudget
    /\ [] (\A t \in Threads :
             (Returned(t) /\ Passed(t)) =>
                 \/ req[t].result # "none" /\ req[t].error = "none"
                 \/ req[t].result = "none" /\ req[t].error # "none"
                 \/ /\ req[t].result = "none" /\ req[t].error = "none"
                    /\ LastOutcome(t) = "ok")
    /\ \A t \in Threads : (pc[t] = "attempt") ~> Returned(t)

\* C20 witness: a call has returned an error at its third attempt, after two
\* sleeps.
C20_Witness ==
    \E t \in Threads :
        /\ pc[t] = "handle"
        /\ Len(req[t].outcomes) = max_retries
        /\ Len(req[t].sleeps) = max_retries - 1
        /\ req[t].error # "none"

\* C12: with requests served concurrently, acquiring the throttle is atomic:
\* no two granted calls are recorded less than MIN_REQUEST_INTERVAL apart,
\* and the calls granted within any trailing hour never exceed the hourly
\* cap, whatever the callers saw when they checked.
C12_ThrottleAtomic ==
    /\ \A i \in 1 .. Len(request_timestamps) - 1 :
          request_timestamps[i + 1] - request_timestamps[i] >= MIN_REQUEST_INTERVAL
    /\ Len(WithinHour(request_timestamps, now)) <= MAX_REQUESTS_PER_HOUR

\* C13: with requests served concurrently, every cache operation is atomic:
\* no request ends in an internal error because an entry came or went
\* between its membership test and its read, its expiry test and its delete,
\* or its oldest-key scan and its delete, and the entry an eviction deletes
\* is an oldest one of the cache it is deleted from.
C13_CacheOpsAtomic ==
    [][ \A t \in Threads :
          /\ (pc[t] # "done" /\ pc'[t] = "done") =>
                req'[t].error \notin { "KeyError", "ValueError" }
          /\ (pc[t] = "evict" /\ pc'[t] # "evict") =>
                /\ req[t].oldest_key \in Oldest(cache)
                /\ cache' = CacheDel(cache, req[t].oldest_key)
      ]_vars

\* The call of thread t has just been denied by the quota check.
Denied(t) == pc[t] = "handle" /\ req[t].error = "quota"

\* The quota check would grant a call made now.
Grantable == Len(WithinHour(request_timestamps, now)) < MAX_REQUESTS_PER_HOUR

\* C21: a quota denial is not permanent.  A denied call records nothing (the
\* check only prunes the window, and answering the request changes nothing
\* of the throttle); one hour after the most recent granted call the quota
\* check grants again; and with time advancing every denial is followed by a
\* state in which the next call would be granted.
C21_DenialNotPermanent ==
    /\ [][ \A t \in Threads :
             /\ (pc[t] = "throttle" /\ Denied(t)') =>
                   /\ request_timestamps' = WithinHour(request_timestamps, now)
                   /\ Len(request_timestamps') >= MAX_REQUESTS_PER_HOUR
                   /\ last_request_time' = last_request_time
                   /\ request_count' = request_count
             /\ (Denied(t) /\ ~ Denied(t)') => UNCHANGED throttle
             /\ (pc[t] = "throttle" /\ pc'[t] = "spacing") => Grantable
       ]_vars
    /\ [] (now - last_request_time >= HOUR => Grantable)
    /\ \A t \in Threads : Denied(t) ~> Grantable

\* C21 witness: after a denial earlier in the run, time has passed and a
\* quota check has just granted a call.
C21_Witness ==
    \E t \in Threads :
        /\ denied
        /\ pc[t] = "spacing"
        /\ req[t].checks = 1
        /\ request_count >= MAX_REQUESTS_PER_HOUR

====
